---- MODULE Spec2Model ----
(***************************************************************************)
(* Model of src/scripts.py: the per-year cache of Treasury yield curves,   *)
(* the curve loader get_yield_curve_for_date and the two-date comparator   *)
(* compare_yield_curves.                                                   *)
(*                                                                         *)
(* Numbers.  The code computes on float64.  Here a number is an exact      *)
(* rational [n, d] in lowest terms with d > 0; d = 0 encodes the           *)
(* non-finite values: [0,0] is NaN / pd.NA, [1,0] and [-1,0] are +-inf.    *)
(* Tenor keys are the values of col_mapping, which the code rounds to four *)
(* decimals, so they are held as integers in units of 1/10000 year.        *)
(* Dates are records [year, day] (day = ordinal inside the year); the CSV  *)
(* writes a date with the year last and the index/date_str put it first.   *)
(***************************************************************************)
EXTENDS Integers, Sequences, FiniteSets, TLC

VARIABLES caches, remote, fetches, lastCall

vars == <<caches, remote, fetches, lastCall>>

-----------------------------------------------------------------------------
(* Bounds of the model *)

MaxDay == 3

(* Program constants *)

MinYear == 1990

(* one year before the first supported one, and two supported years: a call *)
(* involves at most two years                                             *)
Years == (MinYear - 1)..(MinYear + 1)
Days == 1..MaxDay
Dates == [year : Years, day : Days]
CacheIds == {"default", "user"}

-----------------------------------------------------------------------------
(* float arithmetic, as exact rationals *)

Abs(x) == IF x < 0 THEN -x ELSE x

Sign(x) == IF x < 0 THEN -1 ELSE IF x > 0 THEN 1 ELSE 0

RECURSIVE GCD(_, _)
GCD(a, b) == IF b = 0 THEN a ELSE GCD(b, a % b)

Rat(n, d) ==
  IF d = 0 THEN [n |-> Sign(n), d |-> 0]
  ELSE LET g == GCD(Abs(n), Abs(d))
           s == Sign(d)
       IN [n |-> (s * n) \div g, d |-> (s * d) \div g]

NA == [n |-> 0, d |-> 0]

Num(k) == Rat(k, 1)

RatSub(a, b) ==
  IF a.d = 0 \/ b.d = 0 THEN NA
  ELSE Rat(a.n * b.d - b.n * a.d, a.d * b.d)

RatMul(a, b) ==
  IF a.d = 0 \/ b.d = 0 THEN Rat(a.n * b.n, 0)
  ELSE Rat(a.n * b.n, a.d * b.d)

RatDiv(a, b) ==
  IF a.d = 0 \/ b.d = 0 THEN NA
  ELSE IF b.n = 0 THEN Rat(a.n, 0)
  ELSE Rat(a.n * b.d, a.d * b.n)

-----------------------------------------------------------------------------
(* Tenor mapping *)

col_mapping ==
  ("1 Mo" :> 833) @@ ("1.5 Month" :> 1250) @@ ("2 Mo" :> 1667) @@
  ("3 Mo" :> 2500) @@ ("4 Mo" :> 3333) @@ ("6 Mo" :> 5000) @@
  ("1 Yr" :> 10000) @@ ("2 Yr" :> 20000) @@ ("3 Yr" :> 30000) @@
  ("5 Yr" :> 50000) @@ ("7 Yr" :> 70000) @@ ("10 Yr" :> 100000) @@
  ("20 Yr" :> 200000) @@ ("30 Yr" :> 300000)

(* full_reverse_col_mapping.get(t, f'{t} Yr'); every key of the model is a  *)
(* value of col_mapping, the fallback label stands for the others.          *)
TenorLabel(t) ==
  IF \E l \in DOMAIN col_mapping : col_mapping[l] = t
  THEN CHOOSE l \in DOMAIN col_mapping : col_mapping[l] = t
  ELSE "n Yr"

-----------------------------------------------------------------------------
(* The remote yearly CSV.  A table is [cols, rows]: rows maps a row key to  *)
(* a function from the columns to numbers (percentages in the CSV).  The    *)
(* endpoint's content changes over time: RemoteVersions[y] lists the        *)
(* successive contents for year y and remote[y] is the index of the one     *)
(* served now.                                                              *)

CsvDate(day, year) == <<day, year>>

CsvRow(cols, v1mo, v1yr, v10yr) ==
  [l \in cols |-> IF l = "1 Mo" THEN Rat(v1mo, 100)
                  ELSE IF l = "1 Yr" THEN Rat(v1yr, 100) ELSE Rat(v10yr, 100)]

RemoteVersions ==
  [y \in Years |->
     IF y < MinYear
     THEN << [cols |-> {"1 Yr"},
              rows |-> (CsvDate(1, y) :> CsvRow({"1 Yr"}, 0, 800, 0))] >>
     ELSE IF y = MinYear
     THEN << [cols |-> {"1 Yr", "10 Yr"},
              rows |-> (CsvDate(1, y) :> CsvRow({"1 Yr", "10 Yr"}, 0, 500, 450))
                    @@ (CsvDate(3, y) :> CsvRow({"1 Yr", "10 Yr"}, 0, 520, 440))],
             [cols |-> {"1 Mo", "1 Yr", "10 Yr"},
              rows |-> (CsvDate(1, y) :> CsvRow({"1 Mo", "1 Yr", "10 Yr"}, 300, 500, 450))
                    @@ (CsvDate(2, y) :> CsvRow({"1 Mo", "1 Yr", "10 Yr"}, 310, 0, 450))
                    @@ (CsvDate(3, y) :> CsvRow({"1 Mo", "1 Yr", "10 Yr"}, 320, 520, 440))] >>
     ELSE << [cols |-> {"1 Mo"},
              rows |-> (CsvDate(1, y) :> CsvRow({"1 Mo"}, 0, 0, 0))
                    @@ (CsvDate(2, y) :> CsvRow({"1 Mo"}, 250, 0, 0))] >>]

RemoteCSV(y) == RemoteVersions[y][remote[y]]

-----------------------------------------------------------------------------
(* Curve loader *)

strftime(date) == <<date.year, date.day>>

ParseDate(k) == <<k[2], k[1]>>

NoCurve == [t \in {} |-> NA]

NoDate == [year |-> 0, day |-> 0]

YearOnly(y) == [year |-> y, day |-> 0]

(* ValueError(message): the message kind and the dates or year it quotes *)
Err(kind, d1, d2) == [kind |-> kind, a |-> strftime(d1), b |-> strftime(d2)]

NoError == Err("None", NoDate, NoDate)

(* one console line: its fixed text and the values formatted into it *)
Line(text, e) == [text |-> text, e |-> e]

UnsupportedYearOff(year) == year < MinYear - 1

UnsupportedYear(year) == year < MinYear

CacheMissAlways(year, cache) == TRUE

CacheMiss(year, cache) == year \notin DOMAIN cache

(* pd.read_csv(url, index_col="Date", parse_dates=True), then              *)
(* rename(columns=col_mapping), then / 100                                  *)
LoadYear(csv) ==
  LET keys == {ParseDate(k) : k \in DOMAIN csv.rows}
      cols == {col_mapping[l] : l \in csv.cols}
      raw(i) == CHOOSE k \in DOMAIN csv.rows : ParseDate(k) = i
  IN [cols |-> cols,
      rows |-> [i \in keys |->
                  [t \in cols |-> RatDiv(csv.rows[raw(i)][TenorLabel(t)], Num(100))]]]

StoreYearEvict(cache, year, df) == (year :> df)

StoreYear(cache, year, df) == (year :> df) @@ cache

(* the except branch of the load: the assignment cache[year] = ... is the   *)
(* last statement of the try block that can be skipped, the cache is as     *)
(* before                                                                   *)
FailedLoadCachePartial(cache, year) == (year :> [cols |-> {}, rows |-> <<>>]) @@ cache

FailedLoadCache(cache, year) == cache

(* df_yearly.loc[date_str], KeyError when the index has no such label *)
LookupNearest(df, date_str) ==
  LET before == {k \in DOMAIN df.rows : k[1] = date_str[1] /\ k[2] <= date_str[2]}
  IN IF before = {} THEN [found |-> FALSE, row |-> NoCurve]
     ELSE [found |-> TRUE,
           row |-> df.rows[CHOOSE k \in before : \A j \in before : j[2] <= k[2]]]

Lookup(df, date_str) ==
  IF date_str \in DOMAIN df.rows
  THEN [found |-> TRUE, row |-> df.rows[date_str]]
  ELSE [found |-> FALSE, row |-> NoCurve]

NeedsFetch(date, cache) == ~UnsupportedYear(date.year) /\ CacheMiss(date.year, cache)

get_yield_curve_for_date(date, visual, cache, ok) ==
  LET date_str == strftime(date)
      year == date.year
      base == [cache |-> cache, err |-> NoError, curve |-> NoCurve,
               printed |-> <<>>, fetched |-> <<>>, plots |-> <<>>]
  IN IF UnsupportedYear(year)
     THEN [base EXCEPT !.err = Err("UnsupportedYear", YearOnly(year), NoDate)]
     ELSE LET miss == CacheMiss(year, cache)
              loading == IF miss
                         THEN <<Line("Loading data for year", Err("None", YearOnly(year), NoDate))>>
                         ELSE <<>>
          IN IF miss /\ ~ok
             THEN [base EXCEPT !.cache = FailedLoadCache(cache, year),
                               !.err = Err("YearLoadFailed", YearOnly(year), NoDate),
                               !.printed = loading,
                               !.fetched = <<[year |-> year, ok |-> FALSE]>>]
             ELSE LET cache2 == IF miss THEN StoreYear(cache, year, LoadYear(RemoteCSV(year)))
                                ELSE cache
                      out == IF miss
                             THEN loading \o <<Line("Successfully loaded and cached data for",
                                                    Err("None", YearOnly(year), NoDate))>>
                             ELSE <<>>
                      got == IF miss THEN <<[year |-> year, ok |-> TRUE]>> ELSE <<>>
                      hit == Lookup(cache2[year], date_str)
                  IN IF hit.found
                     THEN [base EXCEPT !.cache = cache2, !.printed = out, !.fetched = got,
                                       !.curve = hit.row,
                                       !.plots = IF visual THEN <<"line">> ELSE <<>>]
                     ELSE [base EXCEPT !.cache = cache2, !.printed = out, !.fetched = got,
                                       !.err = Err("NoDataForDate", date, NoDate)]

-----------------------------------------------------------------------------
(* Comparator *)

DateLess(a, b) == a.year < b.year \/ (a.year = b.year /\ a.day < b.day)

NeverSwap(date1, date2) == FALSE

SwapDates(date1, date2) == DateLess(date1, date2)

CommonTenors(yc1, yc2) == (DOMAIN yc1) \cap (DOMAIN yc2)

NeverEmpty(common_tenors) == FALSE

IndexEmpty(common_tenors) == common_tenors = {}

NoColors == [l \in {} |-> ""]

NoTable == [index |-> {}, yc1_pct |-> [l \in {} |-> NA], yc2_pct |-> [l \in {} |-> NA],
            absolute_diff |-> [l \in {} |-> NA], relative_diff |-> [l \in {} |-> NA]]

(* yc1.replace(0, pd.NA) *)
ReplaceZero(x) == IF x.d # 0 /\ x.n = 0 THEN NA ELSE x

AbsoluteDiff(y1, y2) == RatMul(RatSub(y2, y1), Num(10000))

RelativeDiff(y1, y2) == RatMul(RatDiv(RatSub(y2, y1), ReplaceZero(y1)), Num(100))

BarColor(x) == IF x.n >= 0 THEN "green" ELSE "red"

(* except ValueError as e: print(...); the function then returns None *)
Reraise(e) == [raised |-> e, printed |-> <<>>]

Caught(e) == [raised |-> NoError, printed |-> <<Line("Error comparing yield curves:", e)>>]

(* the result of a comparison that ends in the except branch *)
CompareFailed(cache, fetched, printed, e) ==
  [cache |-> cache, raised |-> Caught(e).raised, hdr |-> <<NoDate, NoDate>>,
   printed |-> printed \o Caught(e).printed, fetched |-> fetched, table |-> NoTable,
   plots |-> <<>>, colors |-> NoColors]

(* differences, table and plots over the common tenors.  With date1 = date2 *)
(* the two yield rows of the table have the same header and the same values, *)
(* the DataFrame keeps one of them.                                          *)
Tabulate(date1, date2, visual, cache, fetched, printed, yc1, yc2, common_tenors) ==
  LET tenor_labels == {TenorLabel(t) : t \in common_tenors}
      key(l) == CHOOSE t \in common_tenors : TenorLabel(t) = l
  IN [cache |-> cache, raised |-> NoError, hdr |-> <<date1, date2>>,
      printed |-> printed \o <<Line("--- Yield Curve Comparison:", Err("None", date1, date2))>>,
      fetched |-> fetched,
      table |-> [index |-> tenor_labels,
                 yc1_pct |-> [l \in tenor_labels |-> RatMul(yc1[key(l)], Num(100))],
                 yc2_pct |-> [l \in tenor_labels |-> RatMul(yc2[key(l)], Num(100))],
                 absolute_diff |-> [l \in tenor_labels |-> AbsoluteDiff(yc1[key(l)], yc2[key(l)])],
                 relative_diff |-> [l \in tenor_labels |-> RelativeDiff(yc1[key(l)], yc2[key(l)])]],
      plots |-> IF visual THEN <<"lines", "bars">> ELSE <<>>,
      colors |-> IF visual
                 THEN [l \in tenor_labels |-> BarColor(AbsoluteDiff(yc1[key(l)], yc2[key(l)]))]
                 ELSE NoColors]

(* both curves are loaded *)
CompareCurves(date1, date2, visual, cache, fetched, printed, yc1, yc2) ==
  IF IndexEmpty(CommonTenors(yc1, yc2))
  THEN CompareFailed(cache, fetched, printed, Err("NoCommonTenors", date1, date2))
  ELSE Tabulate(date1, date2, visual, cache, fetched, printed, yc1, yc2, CommonTenors(yc1, yc2))

(* r1, r2: what the two calls of the loader gave *)
CompareSecond(date1, date2, visual, r1, r2) ==
  IF r2.err # NoError
  THEN CompareFailed(r2.cache, r1.fetched \o r2.fetched, r1.printed \o r2.printed, r2.err)
  ELSE CompareCurves(date1, date2, visual, r2.cache, r1.fetched \o r2.fetched,
                     r1.printed \o r2.printed, r1.curve, r2.curve)

CompareFirst(date1, date2, visual, r1, ok2) ==
  IF r1.err # NoError
  THEN CompareFailed(r1.cache, r1.fetched, r1.printed, r1.err)
  ELSE CompareSecond(date1, date2, visual, r1,
                     get_yield_curve_for_date(date2, FALSE, r1.cache, ok2))

(* after the swap: date1 is not earlier than date2 *)
CompareOrdered(date1, date2, visual, cache, ok1, ok2) ==
  CompareFirst(date1, date2, visual, get_yield_curve_for_date(date1, FALSE, cache, ok1), ok2)

compare_yield_curves(dateA, dateB, visual, cache, ok1, ok2) ==
  CompareOrdered(IF SwapDates(dateA, dateB) THEN dateB ELSE dateA,
                 IF SwapDates(dateA, dateB) THEN dateA ELSE dateB,
                 visual, cache, ok1, ok2)

-----------------------------------------------------------------------------
(* State machine.  The program is single-threaded: one call runs at a time. *)
(* lastCall is the call that has just returned (its arguments, the fetch    *)
(* outcomes the network gave it, and everything it returned, raised,        *)
(* printed or plotted) until its caller takes the result.                   *)

(* the outcomes the network can give the fetch of a call; a call that cannot *)
(* fetch for this date has none to choose                                  *)
OkChoices(date, cache) == IF NeedsFetch(date, cache) THEN BOOLEAN ELSE {TRUE}

CountOk(fetched, y) == Cardinality({i \in DOMAIN fetched : fetched[i].year = y /\ fetched[i].ok})

Call(op, c, d1, d2, visual, net, err, curve, printed, fetched, table, hdr, plots, colors) ==
  [op |-> op, cache |-> c, date1 |-> d1, date2 |-> d2, visual |-> visual, net |-> net,
   err |-> err, curve |-> curve, printed |-> printed, fetched |-> fetched, table |-> table,
   hdr |-> hdr, plots |-> plots, colors |-> colors]

NoCall == Call("none", "default", NoDate, NoDate, FALSE, <<TRUE, TRUE>>, NoError, NoCurve,
               <<>>, <<>>, NoTable, <<NoDate, NoDate>>, <<>>, NoColors)

UserCacheInit == (MinYear - 1) :> LoadYear(RemoteVersions[MinYear - 1][1])

Init ==
  /\ caches = [c \in CacheIds |-> IF c = "default" THEN <<>> ELSE UserCacheInit]
  /\ remote = [y \in Years |-> 1]
  /\ fetches = [c \in CacheIds |-> [y \in Years |-> 0]]
  /\ lastCall = NoCall

(* r: what the call gave *)
GetReturns(c, date, visual, ok, r) ==
  /\ caches' = [caches EXCEPT ![c] = r.cache]
  /\ fetches' = [fetches EXCEPT ![c] = [y \in Years |-> @[y] + CountOk(r.fetched, y)]]
  /\ lastCall' = Call("get", c, date, NoDate, visual, <<ok, TRUE>>, r.err, r.curve, r.printed,
                      r.fetched, NoTable, <<NoDate, NoDate>>, r.plots, NoColors)
  /\ UNCHANGED remote

GetYieldCurve(c, date, visual, ok) ==
  /\ lastCall.op = "none"
  /\ GetReturns(c, date, visual, ok, get_yield_curve_for_date(date, visual, caches[c], ok))

CompareReturns(dateA, dateB, visual, ok1, ok2, r) ==
  /\ caches' = [caches EXCEPT !["default"] = r.cache]
  /\ fetches' = [fetches EXCEPT !["default"] = [y \in Years |-> @[y] + CountOk(r.fetched, y)]]
  /\ lastCall' = Call("compare", "default", dateA, dateB, visual, <<ok1, ok2>>, r.raised,
                      NoCurve, r.printed, r.fetched, r.table, r.hdr, r.plots, r.colors)
  /\ UNCHANGED remote

CompareYieldCurves(dateA, dateB, visual, ok1, ok2) ==
  /\ lastCall.op = "none"
  /\ CompareReturns(dateA, dateB, visual, ok1, ok2,
                    compare_yield_curves(dateA, dateB, visual, caches["default"], ok1, ok2))

Return ==
  /\ lastCall.op # "none"
  /\ lastCall' = NoCall
  /\ UNCHANGED <<caches, remote, fetches>>

RemotePublish(y) ==
  /\ remote[y] < Len(RemoteVersions[y])
  /\ remote' = [remote EXCEPT ![y] = @ + 1]
  /\ UNCHANGED <<caches, fetches, lastCall>>

Next ==
  \/ \E c \in CacheIds, date \in Dates, visual \in BOOLEAN :
       \E ok \in OkChoices(date, caches[c]) : GetYieldCurve(c, date, visual, ok)
  \/ \E dateA \in Dates, dateB \in Dates, visual \in BOOLEAN :
       \E ok1 \in OkChoices(IF SwapDates(dateA, dateB) THEN dateB ELSE dateA, caches["default"]),
          ok2 \in OkChoices(IF SwapDates(dateA, dateB) THEN dateA ELSE dateB, caches["default"]) :
         CompareYieldCurves(dateA, dateB, visual, ok1, ok2)
  \/ Return
  \/ \E y \in Years : RemotePublish(y)

Spec == Init /\ [][Next]_vars

-----------------------------------------------------------------------------
(* Properties *)

(* a step in which the call recorded in lastCall' runs from start to return *)
GetStep == lastCall.op = "none" /\ lastCall'.op = "get"

CompareStep == lastCall.op = "none" /\ lastCall'.op = "compare"

Later(a, b) == IF DateLess(a, b) THEN b ELSE a

Earlier(a, b) == IF DateLess(a, b) THEN a ELSE b

Last(s) == s[Len(s)]

FetchedYears(fetched) == {fetched[i].year : i \in DOMAIN fetched}

(* the row of date d in the default cache *)
Cached(d) == caches["default"][d.year].rows[strftime(d)]

HasCached(d) ==
  /\ d.year \in DOMAIN caches["default"]
  /\ strftime(d) \in DOMAIN caches["default"][d.year].rows

(* a comparison that printed its table *)
Compared == lastCall.op = "compare" /\ lastCall.table.index # {}

(* C1: on each cache, a year is fetched successfully at most once; a lookup  *)
(* of a date whose year is already in the cache issues no fetch, leaves the  *)
(* cached table as it was and returns its row from that table.               *)
C1_FetchAtMostOnce ==
  [][ /\ \A c \in CacheIds : \A y \in Years : fetches'[c][y] <= 1
      /\ GetStep =>
           LET c == lastCall'.cache
               y == lastCall'.date1.year
           IN y \in DOMAIN caches[c] =>
                /\ lastCall'.fetched = <<>>
                /\ fetches'[c][y] = fetches[c][y]
                /\ caches'[c] = caches[c]
                /\ lastCall'.err = NoError =>
                     lastCall'.curve = caches[c][y].rows[strftime(lastCall'.date1)] ]_vars

(* a lookup served from a cached table that the remote has since replaced *)
C1_Witness ==
  /\ lastCall.op = "get" /\ lastCall.cache = "default"
  /\ lastCall.date1.year = MinYear /\ lastCall.fetched = <<>>
  /\ lastCall.err = NoError
  /\ fetches["default"][MinYear] = 1
  /\ remote[MinYear] = 2
  /\ caches["default"][MinYear] = LoadYear(RemoteVersions[MinYear][1])

(* C2: a lookup whose year is >= 1990 and absent from the cache issues a     *)
(* fetch; when that fetch fails the call raises YearLoadFailed and the cache *)
(* is exactly as before, so the year is still absent and the next lookup of  *)
(* that year fetches again.                                                  *)
C2_LoadFailureLeavesYearAbsent ==
  [][ GetStep =>
        LET c == lastCall'.cache
            y == lastCall'.date1.year
        IN (y >= MinYear /\ y \notin DOMAIN caches[c]) =>
             /\ Len(lastCall'.fetched) = 1
             /\ lastCall'.fetched[1].year = y
             /\ lastCall'.fetched[1].ok = lastCall'.net[1]
             /\ ~lastCall'.net[1] =>
                  /\ lastCall'.err = Err("YearLoadFailed", YearOnly(y), NoDate)
                  /\ caches' = caches
                  /\ y \notin DOMAIN caches'[c] ]_vars

(* a failed load on a cache that holds another year *)
C2_Witness ==
  /\ lastCall.op = "get"
  /\ lastCall.err.kind = "YearLoadFailed"
  /\ lastCall.date1.year \notin DOMAIN caches[lastCall.cache]
  /\ DOMAIN caches[lastCall.cache] # {}

(* C3: for each common tenor the reported absolute difference is            *)
(* (current - baseline) * 10000, current being the curve of the later date   *)
(* and baseline the curve of the earlier date.                               *)
C3_AbsDiffCurrentMinusBaseline ==
  Compared =>
    LET current == Cached(Later(lastCall.date1, lastCall.date2))
        baseline == Cached(Earlier(lastCall.date1, lastCall.date2))
    IN \A l \in lastCall.table.index :
         lastCall.table.absolute_diff[l] =
           RatMul(RatSub(current[col_mapping[l]], baseline[col_mapping[l]]), Num(10000))

(* C4: for each common tenor the reported relative difference is            *)
(* (current - baseline) / baseline * 100 with baseline the earlier date's    *)
(* yield, and it is not-a-number exactly where the baseline yield is 0.      *)
C4_RelDiffOverBaseline ==
  Compared =>
    LET current == Cached(Later(lastCall.date1, lastCall.date2))
        baseline == Cached(Earlier(lastCall.date1, lastCall.date2))
    IN \A l \in lastCall.table.index :
         LET cur == current[col_mapping[l]]
             bas == baseline[col_mapping[l]]
         IN IF bas = Num(0)
            THEN lastCall.table.relative_diff[l] = NA
            ELSE lastCall.table.relative_diff[l] =
                   RatMul(RatDiv(RatSub(cur, bas), bas), Num(100))

(* the error of the loader for the first curve it fails on, NoError if none *)
LoaderError(dateA, dateB, cache, net) ==
  LET r1 == get_yield_curve_for_date(Later(dateA, dateB), FALSE, cache, net[1])
      r2 == get_yield_curve_for_date(Earlier(dateA, dateB), FALSE, r1.cache, net[2])
  IN IF r1.err # NoError THEN r1.err ELSE r2.err

(* C5 as claimed: an error of the loader raised while the comparator loads  *)
(* one of its curves is raised, unchanged, to the comparator's caller.       *)
C5_LoaderErrorsPropagate ==
  [][ CompareStep =>
        LET e == LoaderError(lastCall'.date1, lastCall'.date2, caches["default"], lastCall'.net)
        IN e # NoError => lastCall'.err = e ]_vars

(* C5 amended: an error of the loader raised while the comparator loads one *)
(* of its curves is caught inside the comparator: the comparator prints      *)
(* "Error comparing yield curves:" followed by the loader's message,         *)
(* unchanged, prints no table, draws no plot and returns normally.           *)
C5_LoaderErrorsCaughtAndPrinted ==
  [][ CompareStep =>
        LET e == LoaderError(lastCall'.date1, lastCall'.date2, caches["default"], lastCall'.net)
        IN e # NoError =>
             /\ lastCall'.err = NoError
             /\ Last(lastCall'.printed) = Line("Error comparing yield curves:", e)
             /\ lastCall'.table = NoTable
             /\ lastCall'.plots = <<>> ]_vars

(* a comparison whose second load failed after the first succeeded *)
C5_Witness ==
  /\ lastCall.op = "compare"
  /\ lastCall.printed # <<>>
  /\ Last(lastCall.printed).text = "Error comparing yield curves:"
  /\ Last(lastCall.printed).e.kind \in {"UnsupportedYear", "YearLoadFailed", "NoDataForDate"}
  /\ Len(lastCall.fetched) = 2
  /\ lastCall.err = NoError

(* C6: a lookup of a date whose year is < 1990 raises UnsupportedYear,       *)
(* whatever the cache holds, issues no fetch and leaves the cache unchanged. *)
C6_UnsupportedYearAlwaysFails ==
  [][ (GetStep /\ lastCall'.date1.year < MinYear) =>
        /\ lastCall'.err = Err("UnsupportedYear", YearOnly(lastCall'.date1.year), NoDate)
        /\ lastCall'.curve = NoCurve
        /\ lastCall'.fetched = <<>>
        /\ fetches' = fetches
        /\ caches' = caches ]_vars

(* the lookup was made on a cache that holds a row for that very date *)
C6_Witness ==
  /\ lastCall.op = "get" /\ lastCall.cache = "user"
  /\ lastCall.date1.year < MinYear
  /\ lastCall.date1.year \in DOMAIN caches["user"]
  /\ strftime(lastCall.date1) \in DOMAIN caches["user"][lastCall.date1.year].rows
  /\ lastCall.err.kind = "UnsupportedYear"

(* C7: a lookup whose year is >= 1990 and whose year table is loaded raises *)
(* NoDataForDate when the table has no row keyed by the requested date, and  *)
(* otherwise returns exactly the row keyed by the requested date.            *)
C7_ExactDateOrNoData ==
  (lastCall.op = "get" /\ lastCall.date1.year >= MinYear
     /\ lastCall.err.kind # "YearLoadFailed") =>
    LET d == lastCall.date1
        c == lastCall.cache
    IN /\ d.year \in DOMAIN caches[c]
       /\ IF strftime(d) \in DOMAIN caches[c][d.year].rows
          THEN /\ lastCall.err = NoError
               /\ lastCall.curve = caches[c][d.year].rows[strftime(d)]
          ELSE /\ lastCall.err = Err("NoDataForDate", d, NoDate)
               /\ lastCall.curve = NoCurve

(* a missing date with a row on the day before and on the day after *)
C7_Witness ==
  /\ lastCall.op = "get"
  /\ lastCall.err.kind = "NoDataForDate"
  /\ LET d == lastCall.date1
         rows == caches[lastCall.cache][d.year].rows
     IN /\ <<d.year, d.day - 1>> \in DOMAIN rows
        /\ <<d.year, d.day + 1>> \in DOMAIN rows

(* C8: the comparator gives the same result for (d1, d2) and (d2, d1): the  *)
(* same roles (the later date first, the earlier second), the same table,    *)
(* the same console output and error, the same cache afterwards.             *)
C8_OrderIndependent ==
  [][ CompareStep =>
        LET r == compare_yield_curves(lastCall'.date2, lastCall'.date1, lastCall'.visual,
                                      caches["default"], lastCall'.net[1], lastCall'.net[2])
        IN /\ r.table = lastCall'.table
           /\ r.hdr = lastCall'.hdr
           /\ r.raised = lastCall'.err
           /\ r.printed = lastCall'.printed
           /\ r.plots = lastCall'.plots /\ r.colors = lastCall'.colors
           /\ r.cache = caches'["default"]
           /\ lastCall'.table.index # {} =>
                lastCall'.hdr = <<Later(lastCall'.date1, lastCall'.date2),
                                  Earlier(lastCall'.date1, lastCall'.date2)>> ]_vars

(* a comparison called with the earlier date first, across two years *)
C8_Witness ==
  /\ Compared
  /\ DateLess(lastCall.date1, lastCall.date2)
  /\ lastCall.date1.year # lastCall.date2.year
  /\ lastCall.hdr = <<lastCall.date2, lastCall.date1>>

(* C9: when both curves are loaded and share no tenor key the comparison     *)
(* fails with the NoCommonTenors error and no table; when they share one,    *)
(* the table covers exactly the intersection of the two tenor sets.          *)
C9_CommonTenorsOnly ==
  (lastCall.op = "compare" /\ HasCached(lastCall.date1) /\ HasCached(lastCall.date2)) =>
    LET d1 == Later(lastCall.date1, lastCall.date2)
        d2 == Earlier(lastCall.date1, lastCall.date2)
        common == (DOMAIN Cached(d1)) \cap (DOMAIN Cached(d2))
    IN IF common = {}
       THEN /\ Last(lastCall.printed) =
                 Line("Error comparing yield curves:", Err("NoCommonTenors", d1, d2))
            /\ lastCall.table = NoTable
            /\ lastCall.plots = <<>>
       ELSE /\ {col_mapping[l] : l \in lastCall.table.index} = common
            /\ Cardinality(lastCall.table.index) = Cardinality(common)
            /\ DOMAIN lastCall.table.yc1_pct = lastCall.table.index
            /\ DOMAIN lastCall.table.yc2_pct = lastCall.table.index
            /\ DOMAIN lastCall.table.absolute_diff = lastCall.table.index
            /\ DOMAIN lastCall.table.relative_diff = lastCall.table.index

(* two curves with disjoint, non-empty tenor sets *)
C9_Witness ==
  /\ lastCall.op = "compare"
  /\ HasCached(lastCall.date1) /\ HasCached(lastCall.date2)
  /\ DOMAIN Cached(lastCall.date1) # {} /\ DOMAIN Cached(lastCall.date2) # {}
  /\ (DOMAIN Cached(lastCall.date1)) \cap (DOMAIN Cached(lastCall.date2)) = {}
  /\ lastCall.table = NoTable

(* the years a step adds to cache c *)
NewYears(c) == (DOMAIN caches'[c]) \ (DOMAIN caches[c])

KeepsEntries(c) ==
  \A y \in DOMAIN caches[c] : y \in DOMAIN caches'[c] /\ caches'[c][y] = caches[c][y]

(* C10 as claimed: a cached year is never removed nor its table replaced,    *)
(* and a call changes the cache at most by inserting the table of one        *)
(* previously absent year >= 1990.                                           *)
C10_OneInsertPerCall ==
  [][ \A c \in CacheIds :
        /\ KeepsEntries(c)
        /\ \A y \in NewYears(c) : y >= MinYear
        /\ Cardinality(NewYears(c)) <= 1 ]_vars

(* C10 amended: a cached year is never removed nor its table replaced; a     *)
(* get_yield_curve_for_date call changes the cache at most by inserting the  *)
(* table of one previously absent year >= 1990 (the year of its date), and a *)
(* compare_yield_curves call by inserting at most two (the years of its two  *)
(* dates).                                                                   *)
C10_CacheOnlyGrows ==
  [][ \A c \in CacheIds :
        /\ KeepsEntries(c)
        /\ \A y \in NewYears(c) : y >= MinYear
        /\ NewYears(c) # {} =>
             /\ c = lastCall'.cache
             /\ lastCall.op = "none"
             /\ IF lastCall'.op = "get"
                THEN NewYears(c) = {lastCall'.date1.year}
                ELSE /\ lastCall'.op = "compare"
                     /\ NewYears(c) \subseteq {lastCall'.date1.year, lastCall'.date2.year} ]_vars

(* a comparison that inserted the tables of two years *)
C10_Witness ==
  /\ lastCall.op = "compare"
  /\ Len(lastCall.fetched) = 2
  /\ lastCall.fetched[1].ok /\ lastCall.fetched[2].ok
  /\ {lastCall.fetched[1].year, lastCall.fetched[2].year} \subseteq DOMAIN caches["default"]
  /\ lastCall.fetched[1].year # lastCall.fetched[2].year

====
